---- MODULE Spec2Model ----
(***************************************************************************)
(* The preprocessing and feature-engineering pipeline of                   *)
(* src/src/data/preprocessing.py and src/src/data/features.py.             *)
(*                                                                         *)
(* A table (pandas DataFrame) is a record [cols, val]: cols is the ordered *)
(* sequence of column names, val maps each name to its column, a sequence  *)
(* with one cell per row.  Every function of the two files is a pure       *)
(* function from tables to tables and is an operator here; one action per  *)
(* function applies it to the current table.                               *)
(*                                                                         *)
(* A float64 cell is a pair <<n, d>>: a reduced fraction n/d when d > 0,   *)
(* and the IEEE specials NaN = <<0,0>>, +inf = <<1,0>>, -inf = <<-1,0>>.   *)
(* Finite arithmetic is exact (rounding is not modelled); a missing value  *)
(* is NaN, as in pandas.                                                   *)
(***************************************************************************)
EXTENDS Integers, Sequences, FiniteSets, TLC

VARIABLES tbl,    \* the current table (the last call's return value)
          inp,    \* the table the last call was given
          orig,   \* the table the run started from
          op,     \* the last call: its function name and arguments
          steps,  \* number of calls made so far
          limit   \* number of calls the run makes at most

vars == <<tbl, inp, orig, op, steps, limit>>

----------------------------------------------------------------------------
(* float64 cells *)

NaN == <<0, 0>>
PosInf == <<1, 0>>
NegInf == <<-1, 0>>

IsNaN(a) == a[2] = 0 /\ a[1] = 0
IsInf(a) == a[2] = 0 /\ a[1] # 0
IsFin(a) == a[2] > 0

Abs(n) == IF n < 0 THEN -n ELSE n
Sign(n) == IF n < 0 THEN -1 ELSE IF n > 0 THEN 1 ELSE 0

RECURSIVE Gcd(_, _)
Gcd(a, b) == IF b = 0 THEN a ELSE Gcd(b, a % b)

\* the fraction n/d, d > 0, in lowest terms
Frac(n, d) ==
    LET g == Gcd(Abs(n), d)
    IN  <<(Abs(n) \div g) * Sign(n), d \div g>>

Num(k) == <<k, 1>>

Neg(a) == <<-a[1], a[2]>>

\* IEEE addition: NaN is absorbing, inf + (-inf) is NaN
Add(a, b) ==
    IF IsNaN(a) \/ IsNaN(b) THEN NaN
    ELSE IF IsInf(a) /\ IsInf(b) THEN (IF a = b THEN a ELSE NaN)
    ELSE IF IsInf(a) THEN a
    ELSE IF IsInf(b) THEN b
    ELSE Frac(a[1] * b[2] + b[1] * a[2], a[2] * b[2])

Sub(a, b) == Add(a, Neg(b))

Mul(a, b) ==
    IF IsNaN(a) \/ IsNaN(b) THEN NaN
    ELSE IF IsInf(a) \/ IsInf(b)
         THEN (IF a[1] = 0 \/ b[1] = 0 THEN NaN
               ELSE <<Sign(a[1]) * Sign(b[1]), 0>>)
    ELSE Frac(a[1] * b[1], a[2] * b[2])

\* IEEE division: x/0 is +-inf for x # 0, 0/0 and inf/inf are NaN.  A zero
\* divisor is always the +0.0 that t - t yields.
Div(a, b) ==
    IF IsNaN(a) \/ IsNaN(b) THEN NaN
    ELSE IF IsInf(a) /\ IsInf(b) THEN NaN
    ELSE IF IsInf(b) THEN Num(0)
    ELSE IF b[1] = 0 THEN (IF a[1] = 0 THEN NaN ELSE <<Sign(a[1]), 0>>)
    ELSE IF IsInf(a) THEN <<Sign(a[1]) * Sign(b[1]), 0>>
    ELSE Frac(a[1] * b[2] * Sign(b[1]), a[2] * Abs(b[1]))

\* IEEE comparisons: every comparison with NaN is false
Lt(a, b) ==
    /\ ~IsNaN(a)
    /\ ~IsNaN(b)
    /\ a # b
    /\ IF IsInf(a) THEN a = NegInf
       ELSE IF IsInf(b) THEN b = PosInf
       ELSE a[1] * b[2] < b[1] * a[2]

Le(a, b) == ~IsNaN(a) /\ ~IsNaN(b) /\ (a = b \/ Lt(a, b))
Gt(a, b) == Lt(b, a)
Ge(a, b) == Le(b, a)

----------------------------------------------------------------------------
(* pandas Series and DataFrame primitives *)

Rows(col) == 1..Len(col)
Range(s) == {s[k] : k \in 1..Len(s)}

\* Series.fillna(v)
FillNa(col, v) == [i \in Rows(col) |-> IF IsNaN(col[i]) THEN v ELSE col[i]]

\* Series.fillna(method='ffill'): a missing cell takes the nearest preceding
\* value, and stays missing when there is none
RECURSIVE FFillAt(_, _)
FFillAt(col, i) ==
    IF i = 0 THEN NaN
    ELSE IF ~IsNaN(col[i]) THEN col[i]
    ELSE FFillAt(col, i - 1)

FFill(col) == [i \in Rows(col) |-> FFillAt(col, i)]

\* Series.fillna(method='bfill'): the nearest following value
RECURSIVE BFillAt(_, _)
BFillAt(col, i) ==
    IF i > Len(col) THEN NaN
    ELSE IF ~IsNaN(col[i]) THEN col[i]
    ELSE BFillAt(col, i + 1)

BFill(col) == [i \in Rows(col) |-> BFillAt(col, i)]

\* the non-missing cells of a column, in row order
NotNa(col) == SelectSeq(col, LAMBDA v : ~IsNaN(v))

RECURSIVE Insert(_, _)
Insert(v, s) ==
    IF s = <<>> THEN <<v>>
    ELSE IF Le(v, Head(s)) THEN <<v>> \o s
    ELSE <<Head(s)>> \o Insert(v, Tail(s))

RECURSIVE Sorted(_)
Sorted(s) == IF s = <<>> THEN <<>> ELSE Insert(Head(s), Sorted(Tail(s)))

\* Series.quantile(q) for q = qn/qd, linear interpolation (the default) over
\* the non-missing cells: position (n-1)*q between the two nearest ranks
Quantile(col, qn, qd) ==
    LET s == Sorted(NotNa(col))
        n == Len(s)
    IN  IF n = 0 THEN NaN
        ELSE LET k == ((n - 1) * qn) \div qd
                 r == ((n - 1) * qn) % qd
                 lo == s[k + 1]
                 hi == IF r = 0 THEN lo ELSE s[k + 2]
             IN  Add(lo, Mul(Frac(r, qd), Sub(hi, lo)))

\* Series.clip(lower, upper): a missing threshold does not clip, a missing
\* cell stays missing
Clip(col, lower, upper) ==
    [i \in Rows(col) |->
        IF Lt(col[i], lower) THEN lower
        ELSE IF Gt(col[i], upper) THEN upper
        ELSE col[i]]

RECURSIVE SumSeq(_)
SumSeq(s) == IF s = <<>> THEN Num(0) ELSE Add(Head(s), SumSeq(Tail(s)))

RECURSIVE MinSeq(_)
MinSeq(s) ==
    IF Len(s) = 1 THEN s[1]
    ELSE LET m == MinSeq(Tail(s)) IN IF Le(Head(s), m) THEN Head(s) ELSE m

RECURSIVE MaxSeq(_)
MaxSeq(s) ==
    IF Len(s) = 1 THEN s[1]
    ELSE LET m == MaxSeq(Tail(s)) IN IF Ge(Head(s), m) THEN Head(s) ELSE m

\* Series.min() and Series.max(): missing cells are skipped, NaN when none is left
SeriesMin(col) == IF NotNa(col) = <<>> THEN NaN ELSE MinSeq(NotNa(col))
SeriesMax(col) == IF NotNa(col) = <<>> THEN NaN ELSE MaxSeq(NotNa(col))

HasCol(t, c) == \E k \in 1..Len(t.cols) : t.cols[k] = c

\* result[c] = col: replaces the column when it exists, appends it otherwise.
\* (The loops over columns below test "r.cols = <<>>", which is never true of
\* a table, before they go on: it makes TLC evaluate the table r of one
\* iteration before the next, instead of nesting the evaluations; "\o <<>>"
\* likewise makes it store the column as a sequence of evaluated cells.)
SetCol(t, c, col) ==
    [cols |-> IF HasCol(t, c) THEN t.cols ELSE Append(t.cols, c),
     val  |-> IF c \in DOMAIN t.val
              THEN [t.val EXCEPT ![c] = col \o <<>>]
              ELSE t.val @@ (c :> (col \o <<>>))]

\* several assignments result[name] = col in a row, given as a sequence of
\* <<name, col>> pairs with distinct names
SetCols(t, pairs) ==
    LET names == [k \in 1..Len(pairs) |-> pairs[k][1]]
        new == [c \in Range(names) |->
                   (CHOOSE k \in 1..Len(pairs) : pairs[k][1] = c) ]
    IN  [cols |-> t.cols \o SelectSeq(names, LAMBDA c : c \notin DOMAIN t.val),
         val  |-> [c \in Range(names) |-> pairs[new[c]][2] \o <<>>] @@ t.val]

NRows(t) == Len(t.val["Time"])

\* a faulty variant: the Time column not skipped
NonTimeAll(t) == t.cols

\* the columns a loop "for column in data.columns: if column != 'Time'" visits
NonTime(t) == SelectSeq(t.cols, LAMBDA c : c # "Time")

\* [col for col in data.columns if col not in ['Time', 'label']]
FeatureColumns(t) == SelectSeq(t.cols, LAMBDA c : c # "Time" /\ c # "label")

\* an Optional argument: None, or Some(v)
None == [some |-> FALSE, v |-> <<>>]
Some(x) == [some |-> TRUE, v |-> x]

----------------------------------------------------------------------------
(* preprocessing.py *)

\* the IQR multiplier 1.5 of lines 70-71
IqrFactor == Frac(3, 2)

\* a faulty variant: the bounds one IQR away from the quartiles, not one and a half
ClipColumnNarrow(t, c) ==
    LET Q1 == Quantile(t.val[c], 1, 4)
        Q3 == Quantile(t.val[c], 3, 4)
    IN  SetCol(t, c, Clip(t.val[c], Sub(Q1, Sub(Q3, Q1)), Add(Q3, Sub(Q3, Q1))))

\* one iteration of the loop of clean_data (lines 65-74)
ClipColumn(t, c) ==
    LET Q1 == Quantile(t.val[c], 1, 4)
        Q3 == Quantile(t.val[c], 3, 4)
        IQR == Sub(Q3, Q1)
        lower_bound == Sub(Q1, Mul(IqrFactor, IQR))
        upper_bound == Add(Q3, Mul(IqrFactor, IQR))
    IN  SetCol(t, c, Clip(t.val[c], lower_bound, upper_bound))

RECURSIVE ClipColumns(_, _)
ClipColumns(t, cs) ==
    IF cs = <<>> THEN t
    ELSE LET r == ClipColumn(t, Head(cs))
         IN  IF r.cols = <<>> THEN r ELSE ClipColumns(r, Tail(cs))

\* cleaned_data.fillna(method='ffill').fillna(method='bfill'): every column,
\* Time included
FillFrame(t) == [t EXCEPT !.val = [c \in DOMAIN t.val |-> BFill(FFill(t.val[c]))]]

clean_data(data) == ClipColumns(FillFrame(data), NonTime(data))

\* a faulty variant: division by the maximum, not by the range
ScaleColumnByMax(t, c) ==
    LET min_val == SeriesMin(t.val[c])
        max_val == SeriesMax(t.val[c])
    IN  IF Gt(max_val, min_val)
        THEN SetCol(t, c, [i \in Rows(t.val[c]) |->
                 Div(Sub(t.val[c][i], min_val), max_val)])
        ELSE t

\* one iteration of the loop of normalize_data (lines 94-97).  The label
\* column holds text: NormalizeData below calls normalize_data only when its
\* cells are all equal, so that max_val > min_val is false for it.
ScaleColumn(t, c) ==
    LET min_val == IF c = "label" THEN NaN ELSE SeriesMin(t.val[c])
        max_val == IF c = "label" THEN NaN ELSE SeriesMax(t.val[c])
    IN  IF Gt(max_val, min_val)
        THEN SetCol(t, c, [i \in Rows(t.val[c]) |->
                 Div(Sub(t.val[c][i], min_val), Sub(max_val, min_val))])
        ELSE t

RECURSIVE ScaleColumns(_, _)
ScaleColumns(t, cs) ==
    IF cs = <<>> THEN t
    ELSE LET r == ScaleColumn(t, Head(cs))
         IN  IF r.cols = <<>> THEN r ELSE ScaleColumns(r, Tail(cs))

normalize_data(data) == ScaleColumns(data, NonTime(data))

\* a faulty variant: the upper end of the range excluded
ApplyLabelExclusive(t, label_row) ==
    LET end_time == Add(label_row.start, label_row.length)
        time == t.val["Time"]
    IN  SetCol(t, "label", [i \in Rows(time) |->
            IF Ge(time[i], label_row.start) /\ Lt(time[i], end_time)
            THEN label_row.label
            ELSE t.val["label"][i]])

\* one iteration of the loop over labels.iterrows() (lines 126-132); a label
\* row is [start, length, label]
ApplyLabel(t, label_row) ==
    LET start_time == label_row.start
        end_time == Add(start_time, label_row.length)
        label_value == label_row.label
        time == t.val["Time"]
    IN  SetCol(t, "label", [i \in Rows(time) |->
            IF Ge(time[i], start_time) /\ Le(time[i], end_time)
            THEN label_value
            ELSE t.val["label"][i]])

RECURSIVE ApplyLabels(_, _)
ApplyLabels(t, rows) ==
    IF rows = <<>> THEN t
    ELSE LET r == ApplyLabel(t, Head(rows))
         IN  IF r.cols = <<>> THEN r ELSE ApplyLabels(r, Tail(rows))

\* labels is None, or Some(sequence of label rows)
add_label_column(data, labels) ==
    IF ~labels.some \/ labels.v = <<>> THEN data
    ELSE ApplyLabels(
             SetCol(data, "label", [i \in 1..NRows(data) |-> "NotReady"]),
             labels.v)

preprocess_data(data, labels, clean, normalize, add_labels) ==
    LET r1 == IF clean THEN clean_data(data) ELSE data
        r2 == IF normalize THEN normalize_data(r1) ELSE r1
    IN  IF add_labels /\ labels.some THEN add_label_column(r2, labels) ELSE r2

----------------------------------------------------------------------------
(* features.py *)

Max2(a, b) == IF a > b THEN a ELSE b
Min2(a, b) == IF a < b THEN a ELSE b

\* the largest r in lo..hi with r * r <= n
RECURSIVE IsqrtIn(_, _, _)
IsqrtIn(n, lo, hi) ==
    IF lo = hi THEN lo
    ELSE LET mid == (lo + hi + 1) \div 2
         IN  IF mid * mid <= n THEN IsqrtIn(n, mid, hi) ELSE IsqrtIn(n, lo, mid - 1)

\* the square root of a finite cell >= 0, rounded down to two decimals
\* (float64 rounds it too, further out)
Sqrt(a) ==
    IF ~IsFin(a) THEN a
    ELSE LET n == (a[1] * 10000) \div a[2]
         IN  Frac(IsqrtIn(n, 0, Min2(n, 46340)), 100)

\* a faulty variant: a window one row longer
WindowLong(col, window, i) == SubSeq(col, Max2(1, i - window), i)

\* the rows a trailing window of `window` rows ending at row i covers (rows
\* are numbered from 1 here, from 0 in the code)
Window(col, window, i) == SubSeq(col, Max2(1, i - window + 1), i)

\* Series.rolling(window, min_periods=1).mean(): over the non-missing cells
\* of each window, NaN when the window has none
RollingMean(col, window) ==
    [i \in Rows(col) |->
        LET w == NotNa(Window(col, window, i))
        IN  IF Len(w) < 1 THEN NaN ELSE Div(SumSeq(w), Num(Len(w)))]

\* sum of squared deviations from m
RECURSIVE SumSq(_, _)
SumSq(s, m) ==
    IF s = <<>> THEN Num(0)
    ELSE Add(Mul(Sub(Head(s), m), Sub(Head(s), m)), SumSq(Tail(s), m))

\* Series.rolling(window, min_periods=1).std(): the sample standard deviation
\* (ddof = 1), NaN when the window holds fewer than two non-missing cells
RollingStd(col, window) ==
    [i \in Rows(col) |->
        LET w == NotNa(Window(col, window, i))
            n == Len(w)
        IN  IF n < 2 THEN NaN
            ELSE Sqrt(Div(SumSq(w, Div(SumSeq(w), Num(n))), Num(n - 1)))]

RollingMin(col, window) ==
    [i \in Rows(col) |->
        LET w == NotNa(Window(col, window, i))
        IN  IF Len(w) < 1 THEN NaN ELSE MinSeq(w)]

RollingMax(col, window) ==
    [i \in Rows(col) |->
        LET w == NotNa(Window(col, window, i))
        IN  IF Len(w) < 1 THEN NaN ELSE MaxSeq(w)]

\* one iteration of the loop of calculate_rolling_statistics (lines 27-35)
RollingColumn(result, col, window_size) ==
    SetCols(result,
        << <<col \o "_rolling_mean", RollingMean(result.val[col], window_size)>>,
           <<col \o "_rolling_std",
             FillNa(RollingStd(result.val[col], window_size), Num(0))>>,
           <<col \o "_rolling_min", RollingMin(result.val[col], window_size)>>,
           <<col \o "_rolling_max", RollingMax(result.val[col], window_size)>> >>)

RECURSIVE RollingColumns(_, _, _)
RollingColumns(result, cs, window_size) ==
    IF cs = <<>> THEN result
    ELSE LET r == RollingColumn(result, Head(cs), window_size)
         IN  IF r.cols = <<>> THEN r ELSE RollingColumns(r, Tail(cs), window_size)

\* columns is None or Some(sequence of column names)
calculate_rolling_statistics(data, window_size, columns) ==
    RollingColumns(data,
                   IF columns.some THEN columns.v ELSE FeatureColumns(data),
                   window_size)

\* Series.diff(): NaN in the first row, then cell minus previous cell
Diff(col) ==
    [i \in Rows(col) |-> IF i = 1 THEN NaN ELSE Sub(col[i], col[i - 1])]

\* Series / Series, row by row
DivCols(a, b) == [i \in Rows(a) |-> Div(a[i], b[i])]

\* a faulty variant: deriv1 filled before the second derivative is taken of it
DerivColumnFilledFirst(result, col) ==
    LET dt == Diff(result.val["Time"])
        deriv1 == FillNa(DivCols(Diff(result.val[col]), dt), Num(0)) \o <<>>
    IN  SetCols(result,
            << <<col \o "_deriv1", deriv1>>,
               <<col \o "_deriv2", FillNa(DivCols(Diff(deriv1), dt), Num(0))>> >>)

\* one iteration of the loop of calculate_derivatives (lines 59-67)
DerivColumn(result, col) ==
    LET dt == Diff(result.val["Time"])
        deriv1 == DivCols(Diff(result.val[col]), dt) \o <<>>
        \* the second derivative is taken of deriv1 as it is before fillna
        deriv2 == DivCols(Diff(deriv1), dt)
    IN  SetCols(result,
            << <<col \o "_deriv1", FillNa(deriv1, Num(0))>>,
               <<col \o "_deriv2", FillNa(deriv2, Num(0))>> >>)

RECURSIVE DerivColumns(_, _)
DerivColumns(result, cs) ==
    IF cs = <<>> THEN result
    ELSE LET r == DerivColumn(result, Head(cs))
         IN  IF r.cols = <<>> THEN r ELSE DerivColumns(r, Tail(cs))

calculate_derivatives(data, columns) ==
    DerivColumns(data, IF columns.some THEN columns.v ELSE FeatureColumns(data))

\* "if len(window) > 10" (line 101)
MinFftLen == 10

\* The magnitude spectrum np.abs(np.fft.rfft(window)) is not computed here.
\* Each window longer than MinFftLen gets an outcome [arg, mag] of
\* np.argmax(fft_vals[1:]) and the magnitude at that bin: arg is an index into
\* fft_vals[1:], which has len(window) // 2 entries.  A window with a
\* non-finite cell has an all-NaN spectrum (argmax 0), an all-zero window an
\* all-zero one (argmax 0); any other window may have its maximum in any bin,
\* with an abstract magnitude 1, or 0 when the window is constant.
IsConstant(window) == \A i \in Rows(window) : window[i] = window[1]

FftOutcomes(window) ==
    IF \E i \in Rows(window) : ~IsFin(window[i])
    THEN {[arg |-> 0, mag |-> NaN]}
    ELSE IF \A i \in Rows(window) : window[i] = Num(0)
    THEN {[arg |-> 0, mag |-> Num(0)]}
    ELSE [arg : 0..(Len(window) \div 2 - 1),
          mag : IF IsConstant(window) THEN {Num(0), Num(1)} ELSE {Num(1)}]

\* the (column, row) pairs whose window is transformed
FftCells(data, cs, window_size) ==
    {d \in Range(cs) \X (1..NRows(data)) :
        Len(Window(data.val[d[1]], window_size, d[2])) > MinFftLen}

\* every assignment of an outcome to each transformed window
RECURSIVE Assignments(_, _, _)
Assignments(data, window_size, D) ==
    IF D = {} THEN {<<>>}
    ELSE LET d == CHOOSE e \in D : TRUE
         IN  {(d :> o) @@ f :
                 o \in FftOutcomes(Window(data.val[d[1]], window_size, d[2])),
                 f \in Assignments(data, window_size, D \ {d})}

FftChoices(data, cs, window_size) ==
    Assignments(data, window_size, FftCells(data, cs, window_size))

\* a faulty variant: the DC bin not skipped: argmax over fft_vals, no "+ 1"
DominantAtWithDC(data, col, window_size, i, fft) ==
    LET window == Window(data.val[col], window_size, i)
    IN  IF Len(window) > MinFftLen
        THEN <<Frac(fft[<<col, i>>].arg, Len(window)), fft[<<col, i>>].mag>>
        ELSE <<Num(0), Num(0)>>

\* the body of the loop over rows (lines 98-115): <<dominant frequency, magnitude>>
DominantAt(data, col, window_size, i, fft) ==
    LET window == Window(data.val[col], window_size, i)
    IN  IF Len(window) > MinFftLen
        THEN LET fft_len == Len(window) \div 2 + 1     \* len(fft_freq)
                 idx == fft[<<col, i>>].arg + 1        \* skip DC component
             IN  IF idx < fft_len
                 THEN <<Frac(idx, Len(window)), fft[<<col, i>>].mag>>
                 ELSE <<Num(0), Num(0)>>
        ELSE <<Num(0), Num(0)>>

\* one iteration of the loop over columns (lines 93-118); the windows are
\* read from data, the columns are set in result
FreqColumn(result, data, col, window_size, fft) ==
    LET dominant == [i \in 1..NRows(data) |->
                        DominantAt(data, col, window_size, i, fft)] \o <<>>
    IN  SetCols(result,
            << <<col \o "_dom_freq", [i \in 1..NRows(data) |-> dominant[i][1]]>>,
               <<col \o "_dom_mag", [i \in 1..NRows(data) |-> dominant[i][2]]>> >>)

RECURSIVE FreqColumns(_, _, _, _, _)
FreqColumns(result, data, cs, window_size, fft) ==
    IF cs = <<>> THEN result
    ELSE LET r == FreqColumn(result, data, Head(cs), window_size, fft)
         IN  IF r.cols = <<>> THEN r
             ELSE FreqColumns(r, data, Tail(cs), window_size, fft)

extract_frequency_features(data, columns, window_size, fft) ==
    FreqColumns(data, data,
                IF columns.some THEN columns.v ELSE FeatureColumns(data),
                window_size, fft)

\* a faulty variant: the spectral stage run with the statistics' window
FreqWindowSame(window_size) == window_size

\* window_size*5 (line 155)
FreqWindow(window_size) == window_size * 5

feature_engineering(data, include_rolling, include_derivatives, include_frequency, window_size, fft) ==
    LET columns == Some(FeatureColumns(data))
        r1 == IF include_rolling
              THEN calculate_rolling_statistics(data, window_size, columns)
              ELSE data
        r2 == IF include_derivatives THEN calculate_derivatives(r1, columns) ELSE r1
    IN  IF include_frequency
        THEN extract_frequency_features(r2, columns, FreqWindow(window_size), fft)
        ELSE r2

----------------------------------------------------------------------------
(* the bounds of the model *)

MaxRows == 4        \* rows of a table
MaxTime == 2        \* largest timestamp
MaxLabelRows == 2   \* rows of a table that is labelled
MaxIntervals == 2   \* rows of a label table
MaxWindow == 3      \* largest rolling window
MaxExtra == 2       \* rows beyond MinFftLen of a table that is transformed
MaxSteps == 2       \* calls in a row
MaxChannels == 5    \* channels of a table a feature stage is applied to

----------------------------------------------------------------------------
(* the calls: each applies one function to the current table *)

\* the run has calls left to make
Running == steps < limit

Call(rec, result) ==
    /\ tbl' = result
    /\ inp' = tbl
    /\ op' = rec
    /\ steps' = steps + 1
    /\ UNCHANGED <<orig, limit>>

\* the feature stages are applied to tables of at most MaxChannels channels
Narrow(t) == Len(FeatureColumns(t)) <= MaxChannels

\* columns=None, or one of the table's channels named explicitly
ColumnArgs(t) == {None} \cup {Some(<<c>>) : c \in Range(FeatureColumns(t))}

\* quantile() and the subtraction of line 97 raise on a column of text
AllNumeric(t) == ~HasCol(t, "label")
LabelConstant(t) ==
    HasCol(t, "label") =>
        \A i \in 1..NRows(t) : t.val["label"][i] = t.val["label"][1]

CleanData ==
    /\ Running
    /\ AllNumeric(tbl)
    /\ Call([fn |-> "clean_data"], clean_data(tbl))

NormalizeData ==
    /\ Running
    /\ LabelConstant(tbl)
    /\ Call([fn |-> "normalize_data"], normalize_data(tbl))

AddLabelColumn(L) ==
    /\ Running
    /\ \E labels \in L :
          Call([fn |-> "add_label_column", labels |-> labels],
               add_label_column(tbl, labels))

PreprocessData(L) ==
    Running /\ \E labels \in L, clean \in BOOLEAN, normalize \in BOOLEAN, add_labels \in BOOLEAN :
        /\ clean => AllNumeric(tbl)
        /\ normalize => LabelConstant(tbl)
        /\ Call([fn |-> "preprocess_data", labels |-> labels, clean |-> clean,
                 normalize |-> normalize, add_labels |-> add_labels],
                preprocess_data(tbl, labels, clean, normalize, add_labels))

CalculateRollingStatistics(W) ==
    Running /\ \E window_size \in W, columns \in ColumnArgs(tbl) :
        /\ Narrow(tbl)
        /\ Call([fn |-> "calculate_rolling_statistics",
                 window_size |-> window_size, columns |-> columns],
                calculate_rolling_statistics(tbl, window_size, columns))

CalculateDerivatives ==
    Running /\ \E columns \in ColumnArgs(tbl) :
        /\ Narrow(tbl)
        /\ Call([fn |-> "calculate_derivatives", columns |-> columns],
                calculate_derivatives(tbl, columns))

ExtractFrequencyFeatures(W) ==
    Running /\ \E window_size \in W, columns \in ColumnArgs(tbl) :
        /\ Narrow(tbl)
        /\ \E fft \in FftChoices(tbl,
                         IF columns.some THEN columns.v ELSE FeatureColumns(tbl),
                         window_size) :
              Call([fn |-> "extract_frequency_features",
                    window_size |-> window_size, columns |-> columns, fft |-> fft],
                   extract_frequency_features(tbl, columns, window_size, fft))

FeatureEngineering(W) ==
    Running /\ \E window_size \in W, include_rolling \in BOOLEAN,
       include_derivatives \in BOOLEAN, include_frequency \in BOOLEAN :
        /\ Narrow(tbl)
        /\ \E fft \in IF include_frequency
                      THEN FftChoices(tbl, FeatureColumns(tbl), FreqWindow(window_size))
                      ELSE {<<>>} :
              Call([fn |-> "feature_engineering", window_size |-> window_size,
                    include_rolling |-> include_rolling,
                    include_derivatives |-> include_derivatives,
                    include_frequency |-> include_frequency, fft |-> fft],
                   feature_engineering(tbl, include_rolling, include_derivatives,
                                       include_frequency, window_size, fft))

----------------------------------------------------------------------------
(* the inputs: tables load_raw_data can return, within the bounds *)

Table(cols, val) == [cols |-> cols, val |-> val]

TimeX(time, x) ==
    Table(<<"Time", "x">>, ("Time" :> (time \o <<>>)) @@ ("x" :> (x \o <<>>)))

TimeXY(time, x, y) ==
    Table(<<"Time", "x", "y">>,
          ("Time" :> (time \o <<>>)) @@ ("x" :> (x \o <<>>)) @@ ("y" :> (y \o <<>>)))

\* Time is numeric and non-decreasing
Times(n) ==
    {[i \in 1..n |-> Num(t[i])] :
        t \in {u \in [1..n -> 0..MaxTime] : \A i \in 1..(n - 1) : u[i] <= u[i + 1]}}

Ramp(n) == [i \in 1..n |-> Num(i - 1)]

\* a channel cell: a number, or missing
Cells == {NaN, Num(0), Num(10), Num(30)}

Columns(n) == [1..n -> Cells]

Init(t, n) ==
    /\ tbl = t
    /\ inp = tbl
    /\ orig = tbl
    /\ op = [fn |-> "load_raw_data"]
    /\ steps = 0
    /\ limit = n

\* one channel on evenly spaced timestamps
InitColumn ==
    \E n \in 1..MaxRows : \E x \in Columns(n) : Init(TimeX(Ramp(n), x), 1)

\* a row of the label table: Time(Seconds), Length(Seconds), Label(string)
LabelRows ==
    [start : {Num(0), Num(1)}, length : {Num(0), Num(1)}, label : {"A", "B"}]

\* labels=None, an empty label table, or up to MaxIntervals rows in any order
LabelArgs ==
    {None} \cup UNION {{Some(rows) : rows \in [1..k -> LabelRows]} : k \in 0..MaxIntervals}

\* tables long enough for the spectral stage: evenly spaced timestamps and a
\* channel that is all zero, missing in its first row, constant, a ramp, or
\* alternating
LongColumns(n) ==
    {[i \in 1..n |-> Num(0)],
     [i \in 1..n |-> IF i = 1 THEN NaN ELSE Num(i)],
     [i \in 1..n |-> Num(10)],
     Ramp(n),
     [i \in 1..n |-> Num(10 * (i % 2))]}

LongInputs ==
    UNION {{TimeX(Ramp(n), x) : x \in LongColumns(n)} : n \in 1..(MinFftLen + MaxExtra)}

\* the spectral windows tried: 1, the threshold, just above it, the default 100
FreqWindows == {1, MinFftLen, MinFftLen + 1, MinFftLen + MaxExtra, 100}

\* the inputs of feature_engineering: short tables of one or two channels,
\* with and without a label column, and the long tables
WithLabel(t) == SetCol(t, "label", [i \in 1..NRows(t) |-> IF i = 1 THEN "A" ELSE "NotReady"])

ShortInputs ==
    UNION {{TimeX(Ramp(n), Ramp(n)),
            TimeX(Ramp(n), [i \in 1..n |-> NaN]),
            TimeXY(Ramp(n), [i \in 1..n |-> Num(10 * (i % 2))], Ramp(n)),
            TimeXY(Ramp(n), Ramp(n), [i \in 1..n |-> NaN])} : n \in 1..MaxRows}

FeatInputs ==
    ShortInputs \cup {WithLabel(t) : t \in ShortInputs}
        \cup {t \in LongInputs : NRows(t) > MinFftLen}

\* the inputs of the call sequences: two rows at most, timestamps repeated or
\* not, the second channel when there is one all missing
PipeInputs ==
    {TimeX(<<Num(0), Num(2)>>, <<Num(0), Num(10)>>),
     TimeX(<<Num(0), Num(0)>>, <<NaN, Num(10)>>),
     TimeXY(<<Num(0), Num(1)>>, <<Num(10), Num(30)>>, <<NaN, NaN>>),
     TimeX(<<Num(1)>>, <<NaN>>)}

PipeLabels ==
    {None, Some(<<[start |-> Num(0), length |-> Num(0), label |-> "A"]>>)}

----------------------------------------------------------------------------------------------------------------------------------------
(* the specifications: one per function applied once, and one of call      *)
(* sequences                                                               *)

\* the tables that are labelled: the timestamps matter, the channel does not
InitLabel ==
    \E n \in 1..MaxLabelRows : \E time \in Times(n) : Init(TimeX(time, Ramp(n)), 1)
NextLabel == AddLabelColumn(LabelArgs)
SpecLabel == InitLabel /\ [][NextLabel]_vars

InitClean == InitColumn
NextClean == CleanData
SpecClean == InitClean /\ [][NextClean]_vars

InitNorm == InitColumn
NextNorm == NormalizeData
SpecNorm == InitNorm /\ [][NextNorm]_vars

InitRoll == InitColumn
NextRoll == CalculateRollingStatistics(1..MaxWindow)
SpecRoll == InitRoll /\ [][NextRoll]_vars

\* one channel on any non-decreasing timestamps, repeated ones included
InitDeriv ==
    \E n \in 1..MaxRows :
        \E time \in Times(n), x \in Columns(n) : Init(TimeX(time, x), 1)
NextDeriv == CalculateDerivatives
SpecDeriv == InitDeriv /\ [][NextDeriv]_vars

InitFreq == \E t \in LongInputs : Init(t, 1)
NextFreq == ExtractFrequencyFeatures(FreqWindows)
SpecFreq == InitFreq /\ [][NextFreq]_vars

InitFeat == \E t \in FeatInputs : Init(t, 1)
NextFeat == FeatureEngineering(1..MaxWindow)
SpecFeat == InitFeat /\ [][NextFeat]_vars

Init0 == \E t \in PipeInputs : Init(t, MaxSteps)
Next ==
    \/ CleanData
    \/ NormalizeData
    \/ AddLabelColumn(PipeLabels)
    \/ PreprocessData(PipeLabels)
    \/ CalculateRollingStatistics({1})
    \/ CalculateDerivatives
    \/ ExtractFrequencyFeatures({1})
    \/ FeatureEngineering({1})
Spec == Init0 /\ [][Next]_vars

----------------------------------------------------------------------------
(* the properties *)

\* the channels of a table: every column but Time and label
ChannelsOf(t) == {c \in DOMAIN t.val : c # "Time" /\ c # "label"}

\* the channels the last call was asked to work on
Configured == IF op.columns.some THEN Range(op.columns.v) ELSE ChannelsOf(inp)

\* the rows of a column that hold a value
Present(col) == {i \in Rows(col) : ~IsNaN(col[i])}

Least(S) == CHOOSE k \in S : \A j \in S : k <= j
Greatest(S) == CHOOSE k \in S : \A j \in S : j <= k

\* the intervals of a label table whose closed range holds a time
Holding(labels, time) ==
    {k \in 1..Len(labels) :
        /\ Le(labels[k].start, time)
        /\ Le(time, Add(labels[k].start, labels[k].length))}

\* C1: add_label_column with a non-empty label table gives every row the
\* label of the last interval, in the order of the label table, whose closed
\* range [start, start + duration] holds the row's Time, and "NotReady" when
\* no interval holds it.
C1_LastIntervalWins ==
    (op.fn = "add_label_column" /\ op.labels.some /\ op.labels.v # <<>>) =>
        /\ HasCol(tbl, "label")
        /\ \A i \in 1..NRows(inp) :
              LET K == Holding(op.labels.v, inp.val["Time"][i])
              IN  tbl.val["label"][i] =
                      IF K = {} THEN "NotReady" ELSE op.labels.v[Greatest(K)].label

\* two intervals with different labels hold a row that lies on the upper end
\* of the second one, which starts before the first; another row is in none
C1_Witness ==
    /\ op.fn = "add_label_column" /\ op.labels.some /\ Len(op.labels.v) = 2
    /\ op.labels.v[1].label # op.labels.v[2].label
    /\ Lt(op.labels.v[2].start, op.labels.v[1].start)
    /\ \E i \in 1..NRows(inp) :
          /\ Holding(op.labels.v, inp.val["Time"][i]) = {1, 2}
          /\ inp.val["Time"][i] = Add(op.labels.v[2].start, Num(1))
          /\ op.labels.v[2].length = Num(1)
          /\ tbl.val["label"][i] = op.labels.v[2].label
    /\ \E i \in 1..NRows(inp) :
          /\ Holding(op.labels.v, inp.val["Time"][i]) = {}
          /\ tbl.val["label"][i] = "NotReady"

\* C2: where two consecutive rows have the same Time, calculate_derivatives
\* reports 0 as first and second derivative of the later row, and no
\* infinite or missing value appears in the derivative columns.
C2_DuplicateTimestampZero ==
    op.fn = "calculate_derivatives" =>
        \A c \in Configured :
            LET time == inp.val["Time"]
                d1 == tbl.val[c \o "_deriv1"]
                d2 == tbl.val[c \o "_deriv2"]
            IN  /\ \A i \in 2..Len(time) :
                      time[i] = time[i - 1] => d1[i] = Num(0) /\ d2[i] = Num(0)
                /\ \A i \in 1..Len(time) : IsFin(d1[i]) /\ IsFin(d2[i])

\* the column clean_data clips: a missing cell has taken the nearest
\* preceding value, or the nearest following one when nothing precedes
Filled(col) ==
    [i \in Rows(col) |->
        LET before == {j \in Present(col) : j <= i}
            after == {j \in Present(col) : j > i}
        IN  IF before # {} THEN col[Greatest(before)]
            ELSE IF after # {} THEN col[Least(after)]
            ELSE NaN]

IqrLower(col) ==
    Sub(Quantile(col, 1, 4),
        Mul(Frac(3, 2), Sub(Quantile(col, 3, 4), Quantile(col, 1, 4))))
IqrUpper(col) ==
    Add(Quantile(col, 3, 4),
        Mul(Frac(3, 2), Sub(Quantile(col, 3, 4), Quantile(col, 1, 4))))

\* C3: after clean_data every non-missing cell of a non-Time column lies in
\* [Q1 - 1.5 IQR, Q3 + 1.5 IQR], Q1 and Q3 being the quartiles of the column
\* after the fill and before the clip: a value below the range has become its
\* lower end, a value above it its upper end, a value inside it is unchanged.
C3_ClippedToIqrRange ==
    op.fn = "clean_data" =>
        \A c \in ChannelsOf(inp) :
            LET pre == Filled(inp.val[c])
                lo == IqrLower(pre)
                hi == IqrUpper(pre)
                out == tbl.val[c]
            IN  /\ Len(out) = Len(pre)
                /\ \A i \in Rows(pre) :
                      IF IsNaN(pre[i]) THEN IsNaN(out[i])
                      ELSE /\ Le(lo, out[i]) /\ Le(out[i], hi)
                           /\ out[i] = IF Lt(pre[i], lo) THEN lo
                                       ELSE IF Gt(pre[i], hi) THEN hi
                                       ELSE pre[i]

\* a column with a missing cell of which one value is clipped to the upper
\* end of the range and another is left as it was
C3_Witness ==
    /\ op.fn = "clean_data"
    /\ \E i, j, k \in 1..NRows(inp) :
          LET pre == Filled(inp.val["x"])
          IN  /\ IsNaN(inp.val["x"][k]) /\ ~IsNaN(tbl.val["x"][k])
              /\ Gt(pre[i], IqrUpper(pre)) /\ tbl.val["x"][i] = IqrUpper(pre)
              /\ Le(IqrLower(pre), pre[j]) /\ tbl.val["x"][j] = pre[j]

\* the values a column holds
Values(col) == {col[i] : i \in Present(col)}
LeastValue(col) == CHOOSE a \in Values(col) : \A b \in Values(col) : Le(a, b)
GreatestValue(col) == CHOOSE a \in Values(col) : \A b \in Values(col) : Le(b, a)

\* C4: normalize_data replaces every value v of a non-Time column whose
\* maximum exceeds its minimum by (v - min) / (max - min), so that the
\* column's minimum becomes 0 and its maximum 1; a column whose maximum
\* equals its minimum is returned as it was.
C4_MinMaxScaling ==
    op.fn = "normalize_data" =>
        \A c \in ChannelsOf(inp) :
            LET v == inp.val[c]
                out == tbl.val[c]
            IN  IF Values(v) # {} /\ LeastValue(v) # GreatestValue(v)
                THEN /\ Len(out) = Len(v)
                     /\ \A i \in Rows(v) :
                           out[i] = IF IsNaN(v[i]) THEN NaN
                                    ELSE Div(Sub(v[i], LeastValue(v)),
                                             Sub(GreatestValue(v), LeastValue(v)))
                     /\ LeastValue(out) = Num(0)
                     /\ GreatestValue(out) = Num(1)
                ELSE out = v

\* a column of three different values, 0, 10 and 30, becomes 0, 1/3 and 1
C4_Witness ==
    /\ op.fn = "normalize_data"
    /\ \E i, j, k \in 1..NRows(inp) :
          /\ inp.val["x"][i] = Num(0) /\ tbl.val["x"][i] = Num(0)
          /\ inp.val["x"][j] = Num(10) /\ tbl.val["x"][j] = Frac(1, 3)
          /\ inp.val["x"][k] = Num(30) /\ tbl.val["x"][k] = Num(1)

\* the sum of f over a set of rows
RECURSIVE SumOver(_, _)
SumOver(S, f) ==
    IF S = {} THEN Num(0)
    ELSE LET j == Least(S) IN Add(f[j], SumOver(S \ {j}, f))

\* C5: calculate_rolling_statistics computes the statistics of row i (rows
\* numbered from 0) over the rows max(0, i - window_size + 1) .. i: the mean,
\* the least and the greatest of the values there, and their sample standard
\* deviation (here to two decimals, rounded down), which is 0 when the window
\* holds a single value.
C5_RollingWindowStatistics ==
    op.fn = "calculate_rolling_statistics" =>
        \A c \in Configured :
            LET v == inp.val[c]
            IN  \A i \in Rows(v) :
                  LET first == IF i - op.window_size + 1 > 1
                               THEN i - op.window_size + 1 ELSE 1
                      S == {j \in first..i : ~IsNaN(v[j])}
                      n == Cardinality(S)
                      mean == Div(SumOver(S, v), Num(n))
                      sq == [j \in S |-> Mul(Sub(v[j], mean), Sub(v[j], mean))]
                      std == tbl.val[c \o "_rolling_std"][i]
                  IN  /\ n >= 1 =>
                            /\ tbl.val[c \o "_rolling_mean"][i] = mean
                            /\ \E j \in S :
                                  /\ tbl.val[c \o "_rolling_min"][i] = v[j]
                                  /\ \A k \in S : Le(v[j], v[k])
                            /\ \E j \in S :
                                  /\ tbl.val[c \o "_rolling_max"][i] = v[j]
                                  /\ \A k \in S : Le(v[k], v[j])
                      /\ n <= 1 => std = Num(0)
                      /\ n >= 2 =>
                            LET var == Div(SumOver(S, sq), Num(n - 1))
                                next == Add(std, Frac(1, 100))
                            IN  /\ Ge(std, Num(0))
                                /\ Le(Mul(std, std), var)
                                /\ Gt(Mul(next, next), var)

\* window_size is 2 and the table has three rows of different values: the
\* statistics of the last row leave the first row out, and the first row's
\* window holds a single value
C5_Witness ==
    /\ op.fn = "calculate_rolling_statistics" /\ op.window_size = 2
    /\ inp.val["x"] = <<Num(30), Num(0), Num(10)>>
    /\ tbl.val["x_rolling_mean"][3] = Num(5)
    /\ tbl.val["x_rolling_min"][3] = Num(0)
    /\ tbl.val["x_rolling_max"][3] = Num(10)
    /\ Gt(tbl.val["x_rolling_std"][3], Num(7))
    /\ tbl.val["x_rolling_std"][1] = Num(0)

StrictlyIncreasing(time) == \A i \in 2..Len(time) : Lt(time[i - 1], time[i])

\* C6: on strictly increasing timestamps, with dt[i] = Time[i] - Time[i-1],
\* deriv1[i] = (value[i] - value[i-1]) / dt[i] for i >= 1 and deriv1[0] = 0;
\* deriv2[i] = (deriv1[i] - deriv1[i-1]) / dt[i] for i >= 2 and deriv2[0] =
\* deriv2[1] = 0 (rows numbered from 0); a row whose formula involves a
\* missing value holds 0.  Time = [0,1,2] and value = [0,10,30] give
\* deriv1 = [0,10,20] and deriv2 = [0,0,10].
C6_DerivativeFormulas ==
    (op.fn = "calculate_derivatives" /\ StrictlyIncreasing(inp.val["Time"])) =>
        \A c \in Configured :
            LET v == inp.val[c]
                time == inp.val["Time"]
                d1 == tbl.val[c \o "_deriv1"]
                d2 == tbl.val[c \o "_deriv2"]
            IN  /\ Len(d1) = Len(v) /\ Len(d2) = Len(v)
                /\ \A i \in Rows(v) :
                      /\ d1[i] = IF i >= 2 /\ IsFin(v[i]) /\ IsFin(v[i - 1])
                                 THEN Div(Sub(v[i], v[i - 1]), Sub(time[i], time[i - 1]))
                                 ELSE Num(0)
                      /\ d2[i] = IF /\ i >= 3
                                    /\ IsFin(v[i]) /\ IsFin(v[i - 1]) /\ IsFin(v[i - 2])
                                 THEN Div(Sub(d1[i], d1[i - 1]), Sub(time[i], time[i - 1]))
                                 ELSE Num(0)
                /\ (time = <<Num(0), Num(1), Num(2)>> /\ v = <<Num(0), Num(10), Num(30)>>) =>
                      /\ d1 = <<Num(0), Num(10), Num(20)>>
                      /\ d2 = <<Num(0), Num(0), Num(10)>>

\* the example of the claim
C6_Witness ==
    /\ op.fn = "calculate_derivatives"
    /\ inp.val["Time"] = <<Num(0), Num(1), Num(2)>>
    /\ inp.val["x"] = <<Num(0), Num(10), Num(30)>>
    /\ tbl.val["x_deriv1"] = <<Num(0), Num(10), Num(20)>>
    /\ tbl.val["x_deriv2"] = <<Num(0), Num(0), Num(10)>>

AllMissing(col) == \A i \in Rows(col) : IsNaN(col[i])

RollingSuffixes == {"_rolling_mean", "_rolling_std", "_rolling_min", "_rolling_max"}
DerivSuffixes == {"_deriv1", "_deriv2"}
FreqSuffixes == {"_dom_freq", "_dom_mag"}

\* C7: a channel that is missing in every row is still missing in every row
\* after clean_data, and every column that calculate_rolling_statistics or
\* calculate_derivatives then produces for it holds 0 in every row.
C7_AllMissingChannelZeroFeatures ==
    \A c \in ChannelsOf(orig) :
        AllMissing(orig.val[c]) =>
            /\ (steps = 1 /\ op.fn = "clean_data") => AllMissing(tbl.val[c])
            /\ (/\ steps = 2
                /\ op.fn \in {"calculate_rolling_statistics", "calculate_derivatives"}
                /\ inp = clean_data(orig)
                /\ c \in Configured) =>
                   \A s \in IF op.fn = "calculate_derivatives"
                            THEN DerivSuffixes ELSE RollingSuffixes :
                       \A i \in 1..NRows(tbl) : tbl.val[c \o s][i] = Num(0)

EnabledSuffixes ==
    (IF op.include_rolling THEN RollingSuffixes ELSE {})
        \cup (IF op.include_derivatives THEN DerivSuffixes ELSE {})
        \cup (IF op.include_frequency THEN FreqSuffixes ELSE {})

\* C9: feature_engineering adds exactly the columns c_suffix, for c a column
\* of its input other than Time and label and suffix one of the enabled
\* stages' suffixes; the input's columns keep their values; no feature is
\* computed of a feature; and the spectral stage works on windows of
\* 5 * window_size rows, so that a row has a dominant frequency exactly when
\* min(row number, 5 * window_size) exceeds 10.
C9_FeaturesOfOriginalChannels ==
    op.fn = "feature_engineering" =>
        /\ Range(tbl.cols) \ Range(inp.cols) =
               {c \o s : c \in ChannelsOf(inp), s \in EnabledSuffixes}
        /\ DOMAIN tbl.val = Range(tbl.cols)
        /\ Len(tbl.cols) = Cardinality(Range(tbl.cols))
        /\ \A c \in Range(inp.cols) : tbl.val[c] = inp.val[c]
        /\ op.include_frequency =>
              \A c \in ChannelsOf(inp) : \A i \in 1..NRows(inp) :
                  LET N == IF i < 5 * op.window_size THEN i ELSE 5 * op.window_size
                  IN  Gt(tbl.val[c \o "_dom_freq"][i], Num(0)) <=> N > 10

\* every stage enabled, window_size 3, on a table of more than 10 rows: the
\* last row has a dominant frequency, taken over 15 rows at most
C9_Witness ==
    /\ op.fn = "feature_engineering"
    /\ op.include_rolling /\ op.include_derivatives /\ op.include_frequency
    /\ op.window_size = 3
    /\ NRows(inp) > 10
    /\ Len(tbl.cols) = Len(inp.cols) + 8
    /\ Gt(tbl.val["x_dom_freq"][NRows(inp)], Num(0))

\* C10: extract_frequency_features reports 0 as dominant frequency and
\* magnitude of a row whose window holds N <= 10 samples, N = min(i + 1,
\* window_size) for row i numbered from 0; otherwise the bin it selects has
\* an index idx with 1 <= idx <= floor(N / 2), never the DC bin 0, and the
\* dominant frequency idx / N is strictly positive.
C10_DominantBinNeverDC ==
    op.fn = "extract_frequency_features" =>
        \A c \in Configured : \A i \in 1..NRows(inp) :
            LET N == IF i < op.window_size THEN i ELSE op.window_size
                freq == tbl.val[c \o "_dom_freq"][i]
                mag == tbl.val[c \o "_dom_mag"][i]
            IN  IF N <= 10
                THEN freq = Num(0) /\ mag = Num(0)
                ELSE /\ \E idx \in 1..(N \div 2) : freq = Frac(idx, N)
                     /\ Gt(freq, Num(0))

\* a table of more than 10 rows and a window of more than 10: the last row
\* has a dominant frequency, the tenth row has none
C10_Witness ==
    /\ op.fn = "extract_frequency_features"
    /\ op.window_size > 10
    /\ NRows(inp) > 10
    /\ Gt(tbl.val["x_dom_freq"][NRows(inp)], Num(0))
    /\ tbl.val["x_dom_freq"][10] = Num(0)
    /\ tbl.val["x_dom_mag"][10] = Num(0)

====
